---- MODULE Spec2Model ----
(***************************************************************************)
(* clip_forge: the silence reconciler (analyzers/silence.py), the          *)
(* silencedetect diagnostic parser (ffutil.py), the cut editor             *)
(* (editors/cut.py), the orchestrator (engine.py) and the job store of the *)
(* web interface (web/routes.py).                                          *)
(*                                                                         *)
(* Times are integers.  In the reconciler and the orchestrator one unit is *)
(* one tick of the timeline; in the parser a value is the decimal number   *)
(* written in the text times Scale.  Progress fractions are in thousandths.*)
(***************************************************************************)
EXTENDS Integers, Sequences, FiniteSets, TLC

\* ------------------------------------------------------------------ bounds
MaxT == 3
MaxPad == 1
MaxRanges == 2
MaxChunks == 4
MaxReports == 1
MaxJobs == 1
MaxRuns == 2
MaxEvents == 1
MaxReaders == 1

None == "None"

Max(a, b) == IF a >= b THEN a ELSE b
Min(a, b) == IF a <= b THEN a ELSE b

\* ------------------------------------------------------------ models.py
TimeRange(s, e) == [start |-> s, end |-> e]
Segment(s, e, l) == [start |-> s, end |-> e, label |-> l, text |-> None]

VARIABLES
  \* analyze_silence (analyzers/silence.py)
  pc,             \* position in analyze_silence
  duration,       \* probe.duration
  padding,        \* config.padding
  silent_ranges,  \* the list detect_silence returned
  segments,       \* the list being built
  cursor,         \* end of the last emitted segment
  idx,            \* index of the raw interval the loop is at
  result,         \* the returned list
  \* parse_silence_ranges (ffutil.py)
  ppc,            \* position in parse_silence_ranges
  stderr,         \* the diagnostic text, a sequence of characters
  known_duration, \* the duration argument: <<d>>, or <<>> for None
  starts,         \* ffutil.py:77
  ends,           \* ffutil.py:78
  ranges,         \* ffutil.py:80
  pi,             \* index of the start the pairing loop is at
  \* process (engine.py)
  epc,            \* position in process
  manifest,       \* input, silence_cut.enabled, silence_cut.padding, captions.enabled
  ffutil_version, \* "coarse": src/clipforge/ffutil.py; "fine": on_progress accepted
  source,         \* the input file: has_video, has_audio, duration
  duration_original,
  current_input,
  proc_segments,  \* process's local `segments`
  segments_removed,
  caption_path,
  progress,       \* the (stage, fraction) pairs passed to on_progress, in order
  calls,          \* the calls made to delegates, in order
  error,          \* the exception process raised, None if none
  reported,       \* fractions the running delegate passed to its on_progress
  failed_delegates, \* the delegates whose external process exited with an error
  files,          \* what each path of the file system holds
  \* the job store and its endpoints (web/routes.py)
  jobs,           \* _jobs: job id -> status, progress_queue, error, result
  pending,        \* per job id, the start_process handlers between check and set
  run_threads,    \* the background threads started, with their progress queue
  readers,        \* the generators of progress_stream
  requests,       \* how many requests have arrived, modulo 2
  last_response,  \* the answer to the latest request
  view            \* what is followed: "answers" of the endpoints, or "streams"

rvars == <<pc, duration, padding, silent_ranges, segments, cursor, idx, result>>
pvars == <<ppc, stderr, known_duration, starts, ends, ranges, pi>>
evars == <<epc, manifest, ffutil_version, source, duration_original, current_input,
           proc_segments, segments_removed, caption_path, progress, calls, error,
           reported, failed_delegates, files>>
wvars == <<jobs, pending, run_threads, readers, requests, last_response, view>>
vars == <<rvars, pvars, evars, wvars>>

\* analyze_silence is not running
RIdle ==
  /\ pc = "idle" /\ duration = 0 /\ padding = 0 /\ silent_ranges = <<>>
  /\ segments = <<>> /\ cursor = 0 /\ idx = 1 /\ result = <<>>

\* parse_silence_ranges is not running
PIdle ==
  /\ ppc = "idle" /\ stderr = <<>> /\ known_duration = <<>>
  /\ starts = <<>> /\ ends = <<>> /\ ranges = <<>> /\ pi = 1

\* manifest.output, engine.py:71 (output stem + "_cut"), and the paths a
\* manifest names as input: a path of its own, or the output path itself
OutputPath == "out"
CutOutput == "out_cut"
InputPaths == {"in", "out"}
Paths == InputPaths \cup {OutputPath, CutOutput}

\* a manifest may also name as input the file at the path of engine.py:71
\* (input stem = output stem + "_cut"): spelled as engine.py:71 spells it, or
\* spelled otherwise (relative against absolute, through a link)
CutAliases == {"out_cut", "cut_alias"}

\* the file a path names
File(p) == IF p \in CutAliases THEN CutOutput ELSE p

\* process is not running
EIdle ==
  /\ epc = "idle"
  /\ manifest = [input |-> "in", silence_cut |-> [enabled |-> FALSE, padding |-> 0],
                 captions |-> [enabled |-> FALSE]]
  /\ ffutil_version = "coarse"
  /\ source = [has_video |-> TRUE, has_audio |-> TRUE, duration |-> 0]
  /\ duration_original = 0 /\ current_input = "in"
  /\ proc_segments = <<>> /\ segments_removed = 0 /\ caption_path = None
  /\ progress = <<>> /\ calls = <<>> /\ error = None /\ reported = <<>>
  /\ failed_delegates = {} /\ files = [p \in Paths |-> "absent"]

\* the job ids a request may name; the last one is never handed out
JobIds == 1..(MaxJobs + 1)

\* routes.py:26: the store is empty, nothing is running, no request arrived
WEmpty ==
  /\ jobs = <<>>
  /\ pending = [j \in JobIds |-> 0]
  /\ run_threads = <<>>
  /\ readers = <<>>
  /\ requests = 0
  /\ last_response = [endpoint |-> None, job |-> 0, code |-> 0, status |-> None,
                      result |-> 0]

WIdle == WEmpty /\ view = "answers"

\* ======================================================================
\* analyze_silence, silence.py:32-64
\* ======================================================================

\* the padding left out of the start of the shrunk interval
PaddedStart_NoPad(sr, pad) == Max(sr.start, 0)

\* silence.py:41
PaddedStart(sr, pad) == Max(sr.start + pad, 0)

\* the end of the shrunk interval not clamped to the duration
PaddedEnd_NoClamp(sr, pad, dur) == sr.end - pad

\* silence.py:42
PaddedEnd(sr, pad, dur) == Min(sr.end - pad, dur)

\* the padded start not clamped to the cursor
ClampToCursor_None(silence_start, cur) == silence_start

\* silence.py:44-45
ClampToCursor(silence_start, cur) == IF silence_start < cur THEN cur ELSE silence_start

\* the keep region emitted also when it is empty
KeepBefore_Ge(segs, cur, silence_start) ==
  IF silence_start >= cur THEN Append(segs, Segment(cur, silence_start, "keep")) ELSE segs

\* silence.py:50-51
KeepBefore(segs, cur, silence_start) ==
  IF silence_start > cur THEN Append(segs, Segment(cur, silence_start, "keep")) ELSE segs

\* a skipped interval still closes the keep region before it
LoopBody_KeepOnSkip(st, sr, pad, dur) ==
  LET silence_start == ClampToCursor(PaddedStart(sr, pad), st.cursor)
      silence_end == PaddedEnd(sr, pad, dur)
  IN IF silence_end <= silence_start
       THEN [segments |-> KeepBefore(st.segments, st.cursor, Min(silence_start, dur)),
             cursor |-> Max(st.cursor, Min(silence_start, dur))]
       ELSE [segments |-> Append(KeepBefore(st.segments, st.cursor, silence_start),
                                 Segment(silence_start, silence_end, "silence")),
             cursor |-> silence_end]

\* an eliminated interval moves the cursor to its padded start
LoopBody_SkipAdvances(st, sr, pad, dur) ==
  LET silence_start == ClampToCursor(PaddedStart(sr, pad), st.cursor)
      silence_end == PaddedEnd(sr, pad, dur)
  IN IF silence_end <= silence_start
       THEN [segments |-> st.segments, cursor |-> Min(silence_start, dur)]
       ELSE [segments |-> Append(KeepBefore(st.segments, st.cursor, silence_start),
                                 Segment(silence_start, silence_end, "silence")),
             cursor |-> silence_end]

\* silence.py:39-54, one iteration of the loop on the state st = [segments, cursor]
LoopBody(st, sr, pad, dur) ==
  LET silence_start == ClampToCursor(PaddedStart(sr, pad), st.cursor)
      silence_end == PaddedEnd(sr, pad, dur)
  IN IF silence_end <= silence_start
       THEN st
       ELSE [segments |-> Append(KeepBefore(st.segments, st.cursor, silence_start),
                                 Segment(silence_start, silence_end, "silence")),
             cursor |-> silence_end]

\* silence.py:56-58
TrailingKeep(segs, cur, dur) ==
  IF cur < dur THEN Append(segs, Segment(cur, dur, "keep")) ELSE segs

\* silence.py:60-64
ReturnSegments(segs, dur) ==
  IF segs = <<>> THEN <<Segment(0, dur, "keep")>> ELSE segs

RECURSIVE LoopFrom(_, _, _, _, _)
LoopFrom(st, rs, i, pad, dur) ==
  IF i > Len(rs) THEN st ELSE LoopFrom(LoopBody(st, rs[i], pad, dur), rs, i + 1, pad, dur)

\* silence.py:32-64 as a function of (duration, silent_ranges, padding)
Reconcile(dur, rs, pad) ==
  IF rs = <<>>
    THEN <<Segment(0, dur, "keep")>>
    ELSE LET st == LoopFrom([segments |-> <<>>, cursor |-> 0], rs, 1, pad, dur)
         IN ReturnSegments(TrailingKeep(st.segments, st.cursor, dur), dur)

\* what detect_silence can hand to the reconciler: parsed TimeRanges, which
\* the parser does not validate (ffutil.py:77-87)
RawIntervals == {TimeRange(s, e) : s \in 0..MaxT, e \in 0..(MaxT + 1)}

RECURSIVE SeqsUpTo(_, _)
SeqsUpTo(S, n) ==
  IF n = 0 THEN {<<>>}
  ELSE LET shorter == SeqsUpTo(S, n - 1)
       IN shorter \cup {Append(q, x) : q \in {t \in shorter : Len(t) = n - 1}, x \in S}

RInit ==
  /\ pc = "entry"
  /\ duration \in 0..MaxT
  /\ padding \in 0..MaxPad
  /\ silent_ranges \in SeqsUpTo(RawIntervals, MaxRanges)
  /\ segments = <<>>
  /\ cursor = 0
  /\ idx = 1
  /\ result = <<>>
  /\ PIdle
  /\ EIdle
  /\ WIdle

\* silence.py:33-34
NoSilenceReturn ==
  /\ pc = "entry"
  /\ silent_ranges = <<>>
  /\ result' = <<Segment(0, duration, "keep")>>
  /\ pc' = "returned"
  /\ UNCHANGED <<duration, padding, silent_ranges, segments, cursor, idx>>
  /\ UNCHANGED <<pvars, evars, wvars>>

\* silence.py:36-37
EnterLoop ==
  /\ pc = "entry"
  /\ silent_ranges # <<>>
  /\ segments' = <<>>
  /\ cursor' = 0
  /\ idx' = 1
  /\ pc' = "loop"
  /\ UNCHANGED <<duration, padding, silent_ranges, result>>
  /\ UNCHANGED <<pvars, evars, wvars>>

\* silence.py:39-54
LoopIteration ==
  /\ pc = "loop"
  /\ idx <= Len(silent_ranges)
  /\ LET st == LoopBody([segments |-> segments, cursor |-> cursor],
                        silent_ranges[idx], padding, duration)
     IN /\ segments' = st.segments
        /\ cursor' = st.cursor
  /\ idx' = idx + 1
  /\ UNCHANGED <<pc, duration, padding, silent_ranges, result>>
  /\ UNCHANGED <<pvars, evars, wvars>>

\* silence.py:56-64
LoopExit ==
  /\ pc = "loop"
  /\ idx > Len(silent_ranges)
  /\ segments' = TrailingKeep(segments, cursor, duration)
  /\ result' = ReturnSegments(segments', duration)
  /\ pc' = "returned"
  /\ UNCHANGED <<duration, padding, silent_ranges, cursor, idx>>
  /\ UNCHANGED <<pvars, evars, wvars>>

RNext == NoSilenceReturn \/ EnterLoop \/ LoopIteration \/ LoopExit

SpecReconcile == RInit /\ [][RNext]_vars

\* ======================================================================
\* parse_silence_ranges, ffutil.py:70-87
\*
\* The text is a sequence of characters: "S" stands for the literal
\* "silence_start: ", "E" for the literal "silence_end: ", "1" and "2" are
\* digits, "." is the dot, "x" is any character outside [\d.] that is not
\* part of a literal.
\* ======================================================================

Digits == {"1", "2"}

\* the character class [\d.]
NumChars == Digits \cup {"."}

DigitValue(c) == IF c = "1" THEN 1 ELSE 2

\* the run stops after its first character
RunEnd_OneChar(text, p) == p

\* the greedy [\d.]+ : the last position of the run of NumChars that starts at p
RECURSIVE RunEnd(_, _)
RunEnd(text, p) ==
  IF p + 1 <= Len(text) /\ text[p + 1] \in NumChars THEN RunEnd(text, p + 1) ELSE p

\* re.findall(prefix + r"([\d.]+)", text): the captured groups of the
\* non-overlapping matches, scanning from position pos
RECURSIVE FindAllFrom(_, _, _)
FindAllFrom(prefix, text, pos) ==
  IF pos > Len(text) THEN <<>>
  ELSE IF text[pos] = prefix /\ pos + 1 <= Len(text) /\ text[pos + 1] \in NumChars
    THEN LET q == RunEnd(text, pos + 1)
         IN <<SubSeq(text, pos + 1, q)>> \o FindAllFrom(prefix, text, q + 1)
    ELSE FindAllFrom(prefix, text, pos + 1)

\* one unit of a parsed value is 1/Scale
Scale == 10 ^ (MaxChunks - 1)

Dots(run) == {k \in 1..Len(run) : run[k] = "."}

\* float(m) accepts digits with at most one dot and at least one digit
IsFloatLiteral(run) ==
  /\ Cardinality(Dots(run)) <= 1
  /\ \E k \in 1..Len(run) : run[k] \in Digits

RECURSIVE DigitsValue(_)
DigitsValue(ds) ==
  IF ds = <<>> THEN 0
  ELSE 10 * DigitsValue(SubSeq(ds, 1, Len(ds) - 1)) + DigitValue(ds[Len(ds)])

\* float(m) of a literal, in units of 1/Scale
FloatValue(run) ==
  LET d == IF Dots(run) = {} THEN Len(run) + 1 ELSE CHOOSE k \in Dots(run) : TRUE
      int == SubSeq(run, 1, d - 1)
      frac == SubSeq(run, d + 1, Len(run))
  IN DigitsValue(int) * Scale + DigitsValue(frac) * (10 ^ (MaxChunks - 1 - Len(frac)))

\* [float(m) for m in runs]
RECURSIVE Floats(_)
Floats(runs) ==
  IF runs = <<>> THEN <<>> ELSE <<FloatValue(Head(runs))>> \o Floats(Tail(runs))

\* a pairing loop that validates: a range with end <= start is dropped
PairStep_Validating(rs, i, ss, es, dur) ==
  LET e == IF i <= Len(es) THEN <<es[i]>> ELSE dur
  IN IF e # <<>> /\ e[1] > ss[i] THEN Append(rs, TimeRange(ss[i], e[1])) ELSE rs

\* an unpaired start is closed only by a duration that is truthy
PairStep_Truthy(rs, i, ss, es, dur) ==
  IF i <= Len(es) THEN Append(rs, TimeRange(ss[i], es[i]))
  ELSE IF dur # <<>> /\ dur[1] # 0 THEN Append(rs, TimeRange(ss[i], dur[1]))
  ELSE rs

\* ffutil.py:82-86, the body of the pairing loop for the i-th start
PairStep(rs, i, ss, es, dur) ==
  IF i <= Len(es) THEN Append(rs, TimeRange(ss[i], es[i]))
  ELSE IF dur # <<>> THEN Append(rs, TimeRange(ss[i], dur[1]))
  ELSE rs

\* the lines the text is put together from
Chunks ==
  { <<"S", "1">>, <<"S", "2">>, <<"E", "1">>, <<"E", "2">>,
    <<"S">>, <<"1">>, <<".">>, <<"x">> }

RECURSIVE Flatten(_)
Flatten(cs) == IF cs = <<>> THEN <<>> ELSE Head(cs) \o Flatten(Tail(cs))

Texts == {Flatten(cs) : cs \in SeqsUpTo(Chunks, MaxChunks)}

\* duration=None, and two durations a probe can report
KnownDurations == {<<>>, <<0>>, <<3 * Scale>>}

PInit ==
  /\ ppc = "entry"
  /\ stderr \in Texts
  /\ known_duration \in KnownDurations
  /\ starts = <<>>
  /\ ends = <<>>
  /\ ranges = <<>>
  /\ pi = 1
  /\ RIdle
  /\ EIdle
  /\ WIdle

\* ffutil.py:77
ExtractStarts ==
  /\ ppc = "entry"
  /\ LET runs == FindAllFrom("S", stderr, 1)
     IN IF \A k \in 1..Len(runs) : IsFloatLiteral(runs[k])
          THEN starts' = Floats(runs) /\ ppc' = "ends"
          ELSE starts' = starts /\ ppc' = "raised"
  /\ UNCHANGED <<stderr, known_duration, ends, ranges, pi>>
  /\ UNCHANGED <<rvars, evars, wvars>>

\* ffutil.py:78
ExtractEnds ==
  /\ ppc = "ends"
  /\ LET runs == FindAllFrom("E", stderr, 1)
     IN IF \A k \in 1..Len(runs) : IsFloatLiteral(runs[k])
          THEN ends' = Floats(runs) /\ ppc' = "pairing"
          ELSE ends' = ends /\ ppc' = "raised"
  /\ UNCHANGED <<stderr, known_duration, starts, ranges, pi>>
  /\ UNCHANGED <<rvars, evars, wvars>>

\* ffutil.py:81-86
PairIteration ==
  /\ ppc = "pairing"
  /\ pi <= Len(starts)
  /\ ranges' = PairStep(ranges, pi, starts, ends, known_duration)
  /\ pi' = pi + 1
  /\ UNCHANGED <<ppc, stderr, known_duration, starts, ends>>
  /\ UNCHANGED <<rvars, evars, wvars>>

\* ffutil.py:87
ParseReturn ==
  /\ ppc = "pairing"
  /\ pi > Len(starts)
  /\ ppc' = "returned"
  /\ UNCHANGED <<stderr, known_duration, starts, ends, ranges, pi>>
  /\ UNCHANGED <<rvars, evars, wvars>>

PNext == ExtractStarts \/ ExtractEnds \/ PairIteration \/ ParseReturn

SpecParse == PInit /\ [][PNext]_vars

\* ======================================================================
\* Properties of parse_silence_ranges (checked under SpecParse)
\* ======================================================================

\* the positions of the markers of one kind: the literal followed by at
\* least one character of [\d.]
MarkerPositions(tok) ==
  {p \in 1..(Len(stderr) - 1) : stderr[p] = tok /\ stderr[p + 1] \in NumChars}

\* the i-th element of a set of positions, in order of appearance
NthPosition(S, i) == CHOOSE p \in S : Cardinality({q \in S : q < p}) = i - 1

\* the number written after the marker at position p
NumberAfter(p) ==
  LET q == CHOOSE q \in (p + 1)..Len(stderr) :
             /\ \A k \in (p + 1)..q : stderr[k] \in NumChars
             /\ (q = Len(stderr) \/ stderr[q + 1] \notin NumChars)
  IN FloatValue(SubSeq(stderr, p + 1, q))

MarkerValue(tok, i) == NumberAfter(NthPosition(MarkerPositions(tok), i))

NumStarts == Cardinality(MarkerPositions("S"))
NumEnds == Cardinality(MarkerPositions("E"))

\* C8: every start marker and every end marker of the text is extracted, in
\* order of appearance, and the i-th returned range is (i-th start marker,
\* i-th end marker) for every i up to min(#starts, #ends).
C8_PositionalPairing ==
  ppc = "returned"
  => /\ Len(starts) = NumStarts
     /\ Len(ends) = NumEnds
     /\ \A i \in 1..NumStarts : starts[i] = MarkerValue("S", i)
     /\ \A i \in 1..NumEnds : ends[i] = MarkerValue("E", i)
     /\ Len(ranges) >= Min(NumStarts, NumEnds)
     /\ \A i \in 1..Min(NumStarts, NumEnds) :
          ranges[i] = TimeRange(MarkerValue("S", i), MarkerValue("E", i))

\* two pairs whose starts appear in descending order of value
C8_Witness ==
  /\ ppc = "returned"
  /\ NumStarts = 2 /\ NumEnds = 2
  /\ Len(ranges) = 2
  /\ ranges[1].start > ranges[2].start

\* C9: with exactly one more start marker than end markers, the result is the
\* paired ranges followed, when the duration is known, by one range from the
\* last start marker to the duration, and by nothing when it is unknown.
C9_TrailingStart ==
  (ppc = "returned" /\ NumStarts = NumEnds + 1)
  => /\ \A i \in 1..NumEnds :
          ranges[i] = TimeRange(MarkerValue("S", i), MarkerValue("E", i))
     /\ known_duration # <<>>
          => /\ Len(ranges) = NumStarts
             /\ ranges[NumStarts] = TimeRange(MarkerValue("S", NumStarts), known_duration[1])
     /\ known_duration = <<>> => Len(ranges) = NumEnds

\* one pair, then an unmatched start closed by the known duration
C9_Witness ==
  /\ ppc = "returned"
  /\ NumEnds >= 1 /\ NumStarts = NumEnds + 1
  /\ known_duration # <<>>
  /\ Len(ranges) = NumStarts
  /\ ranges[NumStarts].end = known_duration[1]

\* C10 (as stated): parse_silence_ranges raises for no text, and a text
\* without markers yields the empty list.
C10_NeverRaises ==
  /\ ppc # "raised"
  /\ (ppc = "returned" /\ NumStarts = 0 /\ NumEnds = 0) => ranges = <<>>

\* ======================================================================
\* Properties of analyze_silence (checked under SpecReconcile)
\* ======================================================================

WellFormed(rs) == \A i \in 1..Len(rs) : rs[i].end > rs[i].start

SortedByStart(rs) == \A i \in 1..(Len(rs) - 1) : rs[i].start <= rs[i + 1].start

IsPartition(segs, dur) ==
  /\ segs # <<>>
  /\ segs[1].start = 0
  /\ segs[Len(segs)].end = dur
  /\ \A i \in 1..(Len(segs) - 1) :
       /\ segs[i].end = segs[i + 1].start
       /\ segs[i].start <= segs[i + 1].start

Silences(segs) == {k \in 1..Len(segs) : segs[k].label = "silence"}

\* C1: for duration > 0, raw intervals sorted ascending with end > start and
\* padding >= 0, the returned list is a partition of [0, duration]: it starts
\* at 0, each end is the next start, starts ascend, the last end is duration.
C1_Partition ==
  (pc = "returned" /\ duration > 0 /\ padding >= 0
     /\ WellFormed(silent_ranges) /\ SortedByStart(silent_ranges))
  => IsPartition(result, duration)

\* a run on two sorted intervals that returns three segments, two of them silence
C1_Witness ==
  /\ pc = "returned" /\ duration > 0
  /\ Len(silent_ranges) = 2
  /\ WellFormed(silent_ranges) /\ SortedByStart(silent_ranges)
  /\ Len(result) >= 3
  /\ Cardinality(Silences(result)) = 2

\* C2 (as stated): for duration >= 0, raw intervals with end > start and
\* padding >= 0, no returned segment has end <= start.
C2_NonDegenerate ==
  (pc = "returned" /\ duration >= 0 /\ padding >= 0 /\ WellFormed(silent_ranges))
  => \A k \in 1..Len(result) : result[k].end > result[k].start

\* the padded and clamped interval is empty (no earlier interval emitted)
Eliminated(r) == Min(r.end - padding, duration) <= Max(r.start + padding, 0)

\* C5: for duration > 0, when the raw list is empty or every raw interval is
\* eliminated by padding and clamping, the result is exactly one keep segment
\* [0, duration]; in no case is the returned list empty.
C5_SingleKeep ==
  (pc = "returned" /\ duration > 0)
  => /\ result # <<>>
     /\ (\A i \in 1..Len(silent_ranges) : Eliminated(silent_ranges[i]))
          => result = <<Segment(0, duration, "keep")>>

\* a well-formed interval that padding alone eliminates
C5_Witness ==
  /\ pc = "returned" /\ duration > 0 /\ padding > 0
  /\ silent_ranges # <<>>
  /\ WellFormed(silent_ranges)
  /\ \A i \in 1..Len(silent_ranges) :
       /\ Eliminated(silent_ranges[i])
       /\ silent_ranges[i].end <= duration
  /\ result = <<Segment(0, duration, "keep")>>

\* C6: one raw interval [a, b] with 0 <= a < b <= duration and padding 0
\* gives keep [0, a] iff a > 0, then silence [a, b], then keep [b, duration]
\* iff b < duration.
C6_SingleInterval ==
  (pc = "returned" /\ Len(silent_ranges) = 1 /\ padding = 0
     /\ 0 <= silent_ranges[1].start
     /\ silent_ranges[1].start < silent_ranges[1].end
     /\ silent_ranges[1].end <= duration)
  => LET a == silent_ranges[1].start
         b == silent_ranges[1].end
     IN result = (IF a > 0 THEN <<Segment(0, a, "keep")>> ELSE <<>>)
                 \o <<Segment(a, b, "silence")>>
                 \o (IF b < duration THEN <<Segment(b, duration, "keep")>> ELSE <<>>)

\* the whole file is one silence segment
C6_Witness ==
  /\ pc = "returned" /\ Len(silent_ranges) = 1 /\ padding = 0
  /\ silent_ranges[1].start = 0
  /\ silent_ranges[1].end = duration
  /\ duration > 0
  /\ result = <<Segment(0, duration, "silence")>>

\* C7: an iteration of the loop on the raw interval r appends at most one
\* silence segment [s, e], with r.start + padding <= s and e <= r.end - padding,
\* and none when r.end - r.start <= 2 * padding; no other step adds or
\* changes a silence segment.
C7_ShrunkByPadding ==
  [][ IF pc = "loop" /\ idx <= Len(silent_ranges)
        THEN LET r == silent_ranges[idx]
                 new == SubSeq(segments', Len(segments) + 1, Len(segments'))
                 sil == Silences(new)
             IN /\ Len(segments') >= Len(segments)
                /\ SubSeq(segments', 1, Len(segments)) = segments
                /\ Cardinality(sil) <= 1
                /\ \A k \in sil : /\ r.start + padding <= new[k].start
                                  /\ new[k].end <= r.end - padding
                /\ (r.end - r.start <= 2 * padding) => sil = {}
        ELSE /\ {segments'[k] : k \in Silences(segments')}
                  = {segments[k] : k \in Silences(segments)}
             /\ (pc' = "returned" /\ pc # "returned")
                  => {result'[k] : k \in Silences(result')}
                       = {segments[k] : k \in Silences(segments)}
    ]_vars

\* a returned silence segment strictly inside its raw interval
C7_Witness ==
  /\ pc = "returned" /\ padding > 0
  /\ \E k \in Silences(result), i \in 1..Len(silent_ranges) :
       /\ result[k].start = silent_ranges[i].start + padding
       /\ result[k].end = silent_ranges[i].end - padding

\* ======================================================================
\* process, engine.py:26-120, with apply_cuts (editors/cut.py) and the
\* ffutil delegates it reaches
\* ======================================================================

Event(stage, frac) == [stage |-> stage, frac |-> frac]

Call(fn, path, rs, out) == [fn |-> fn, path |-> path, ranges |-> rs, out |-> out]

\* engine.py:41-45, _sub_progress: fractions in thousandths
SubProgress(base, span, frac) == base + (frac * span) \div 1000

\* the fractions a delegate passes to its on_progress callback
ReportFractions == {0, 500, 1000}

\* ffutil.py:28-53, probe of the file f; ok is the exit status of ffprobe
ProbeOutcome(f, ok) ==
  IF ~ok THEN "CalledProcessError"
  ELSE IF ~f.has_video THEN "ValueError"
  ELSE IF ~f.has_audio THEN "NoAudioStreamError"
  ELSE "ok"

\* the intervals detect_silence returns to process: those of positive length;
\* an interval with end <= start is skipped by the loop whatever the cursor
\* (silence.py:46-47), so a list with such intervals gives the same segments
\* as the list without them
DetectedIntervals == {r \in RawIntervals : r.end > r.start}

\* every segment is counted, whatever its label
SilenceCount_All(segs) == Len(segs)

\* engine.py:67
SilenceCount(segs) == Cardinality({k \in 1..Len(segs) : segs[k].label = "silence"})

\* every segment is taken, whatever its label
RECURSIVE KeepRanges_All(_)
KeepRanges_All(segs) ==
  IF segs = <<>> THEN <<>>
  ELSE <<TimeRange(Head(segs).start, Head(segs).end)>> \o KeepRanges_All(Tail(segs))

\* cut.py:17-21
RECURSIVE KeepRanges(_)
KeepRanges(segs) ==
  IF segs = <<>> THEN <<>>
  ELSE (IF Head(segs).label = "keep"
          THEN <<TimeRange(Head(segs).start, Head(segs).end)>> ELSE <<>>)
       \o KeepRanges(Tail(segs))

\* the guard of apply_cuts left out
NoKeepRanges_Never(keep_ranges) == FALSE

\* cut.py:23-24
NoKeepRanges(keep_ranges) == keep_ranges = <<>>

\* ffutil.py:143
ConcatRejects(rs) == rs = <<>>

\* the ffutil whose detect_silence and concat_segments process calls:
\* "coarse" is src/clipforge/ffutil.py, whose two functions take no
\* on_progress keyword; "fine" takes the keyword that silence.py:29 and
\* cut.py:26 pass, and reports fractions through it
FfutilVersions == {"coarse", "fine"}

\* the captioning stages run whatever the manifest says
AfterEdits_Always == "transcribe"

\* the stage after the silence-cut block, engine.py:85-88
AfterEdits == IF manifest.captions.enabled THEN "transcribe" ELSE "finalize"

EInitWith(inputs) ==
  /\ epc = "start"
  /\ manifest \in [input : inputs,
                   silence_cut : [enabled : BOOLEAN, padding : 0..MaxPad],
                   captions : [enabled : BOOLEAN]]
  /\ ffutil_version \in FfutilVersions
  /\ source \in [has_video : BOOLEAN, has_audio : BOOLEAN, duration : 0..MaxT]
  /\ duration_original = 0
  /\ current_input = manifest.input
  /\ proc_segments = <<>>
  /\ segments_removed = 0
  /\ caption_path = None
  /\ progress = <<>>
  /\ calls = <<>>
  /\ error = None
  /\ reported = <<>>
  /\ failed_delegates = {}
  /\ files = [p \in Paths |-> IF p = File(manifest.input) THEN "source" ELSE "absent"]
  /\ RIdle
  /\ PIdle
  /\ WIdle

EInit == EInitWith(InputPaths)

\* the runs of process whose input may be the file at the path of the cut
CutPathInit == EInitWith(InputPaths \cup CutAliases)

\* engine.py:47, ffutil.py:21-25
CheckFfmpeg ==
  /\ epc = "start"
  /\ \E found \in BOOLEAN :
       IF found THEN epc' = "probing" /\ error' = error
       ELSE epc' = "failed" /\ error' = "FFmpegNotFoundError"
  /\ UNCHANGED <<manifest, ffutil_version, source, duration_original, current_input,
                 proc_segments, segments_removed, caption_path, progress, calls,
                 reported, failed_delegates, files>>
  /\ UNCHANGED <<rvars, pvars, wvars>>

\* engine.py:49-55
Probing ==
  /\ epc = "probing"
  /\ calls' = Append(calls, Call("probe", manifest.input, <<>>, None))
  /\ \E ok \in BOOLEAN :
       LET out == ProbeOutcome(source, ok)
       IN /\ failed_delegates' = IF ok THEN failed_delegates
                                 ELSE failed_delegates \cup {"probe"}
          /\ IF out = "ok"
               THEN /\ progress' = progress \o <<Event("Probing video metadata", 0),
                                                 Event("Probing video metadata", 50)>>
                    /\ duration_original' = source.duration
                    /\ epc' = IF manifest.silence_cut.enabled THEN "scan" ELSE AfterEdits
                    /\ error' = error
               ELSE /\ progress' = Append(progress, Event("Probing video metadata", 0))
                    /\ duration_original' = duration_original
                    /\ epc' = "failed"
                    /\ error' = out
  /\ current_input' = manifest.input
  /\ segments_removed' = 0
  /\ UNCHANGED <<manifest, ffutil_version, source, proc_segments, caption_path, reported,
                 files>>
  /\ UNCHANGED <<rvars, pvars, wvars>>

\* engine.py:58-64 and silence.py:21-30: the probe inside analyze_silence,
\* then the call of ffutil.detect_silence with the on_progress keyword, which
\* ffutil.py:90-95 does not take
ScanStart ==
  /\ epc = "scan"
  /\ progress' = Append(progress, Event("Scanning audio for silence", 60))
  /\ \E ok \in BOOLEAN :
       LET out == ProbeOutcome(source, ok)
           probed == Append(calls, Call("probe", current_input, <<>>, None))
       IN /\ failed_delegates' = IF ok THEN failed_delegates
                                 ELSE failed_delegates \cup {"probe"}
          /\ IF out # "ok"
               THEN calls' = probed /\ epc' = "failed" /\ error' = out
               ELSE IF ffutil_version = "coarse"
                 THEN calls' = probed /\ epc' = "failed" /\ error' = "TypeError"
                 ELSE /\ calls' = Append(probed,
                                         Call("detect_silence", current_input, <<>>, None))
                      /\ epc' = "detecting"
                      /\ error' = error
  /\ reported' = <<>>
  /\ UNCHANGED <<manifest, ffutil_version, source, duration_original, current_input,
                 proc_segments, segments_removed, caption_path, files>>
  /\ UNCHANGED <<rvars, pvars, wvars>>

\* the running delegate reports a fraction no smaller than its last one
Reports(stage, base, span) ==
  /\ Len(reported) < MaxReports
  /\ \E f \in ReportFractions :
       /\ IF reported = <<>> THEN TRUE ELSE f >= reported[Len(reported)]
       /\ reported' = Append(reported, f)
       /\ progress' = Append(progress, Event(stage, SubProgress(base, span, f)))
  /\ UNCHANGED <<epc, manifest, ffutil_version, source, duration_original, current_input,
                 proc_segments, segments_removed, caption_path, calls, error,
                 failed_delegates, files>>
  /\ UNCHANGED <<rvars, pvars, wvars>>

\* engine.py:63, the callback of the silence scan
DetectReport ==
  /\ epc = "detecting"
  /\ Reports("Scanning audio for silence", 60, 190)

\* what detect_silence does with the exit of ffmpeg, ffutil.py:102-115: a
\* non-zero exit raises only when ffmpeg wrote nothing to stderr; a non-zero
\* exit with text on stderr is parsed like a clean exit; float() inside the
\* parser raises ValueError
DetectOutcomes == {"ok", "exit_with_stderr", "RuntimeError", "ValueError"}

\* ffutil.py:110: the outcomes that make detect_silence raise
DetectRaises(out) == out \in {"RuntimeError", "ValueError"}

\* silence.py:24-64 and engine.py:65-67: detect_silence returns (or raises:
\* ffutil.py:110-113, or float() inside the parser), the reconciler runs,
\* the silence segments are counted
DetectReturn ==
  /\ epc = "detecting"
  /\ \E out \in DetectOutcomes :
       /\ failed_delegates' = IF out \in {"exit_with_stderr", "RuntimeError"}
                                THEN failed_delegates \cup {"detect_silence"}
                                ELSE failed_delegates
       /\ IF ~DetectRaises(out)
            THEN \E rs \in SeqsUpTo(DetectedIntervals, MaxRanges) :
                   /\ proc_segments' = Reconcile(source.duration, rs,
                                                 manifest.silence_cut.padding)
                   /\ segments_removed' = SilenceCount(proc_segments')
                   /\ progress' = Append(progress, Event("Analyzing segments", 250))
                   /\ epc' = "analyzed"
                   /\ error' = error
            ELSE /\ epc' = "failed"
                 /\ error' = IF out = "ValueError" THEN "ValueError" ELSE "RuntimeError"
                 /\ UNCHANGED <<proc_segments, segments_removed, progress>>
  /\ reported' = <<>>
  /\ UNCHANGED <<manifest, ffutil_version, source, duration_original, current_input,
                 caption_path, calls, files>>
  /\ UNCHANGED <<rvars, pvars, wvars>>

\* engine.py:69-79 and cut.py:17-26: apply_cuts up to the call of
\* ffutil.concat_segments (ffutil.py:135-144)
CutStart ==
  /\ epc = "analyzed"
  /\ segments_removed > 0
  /\ progress' = Append(progress, Event("Encoding", 270))
  /\ LET keep_ranges == KeepRanges(proc_segments)
     IN IF NoKeepRanges(keep_ranges)
          THEN calls' = calls /\ epc' = "failed" /\ error' = "ValueError"
          ELSE IF ffutil_version = "coarse"
            THEN calls' = calls /\ epc' = "failed" /\ error' = "TypeError"
            ELSE /\ calls' = Append(calls, Call("concat_segments", current_input,
                                                keep_ranges, CutOutput))
                 /\ IF ConcatRejects(keep_ranges)
                      THEN epc' = "failed" /\ error' = "ValueError"
                      ELSE epc' = "cutting" /\ error' = error
  /\ reported' = <<>>
  /\ UNCHANGED <<manifest, ffutil_version, source, duration_original, current_input,
                 proc_segments, segments_removed, caption_path, failed_delegates, files>>
  /\ UNCHANGED <<rvars, pvars, wvars>>

\* engine.py:76-78, the callback of the encode
ConcatReport ==
  /\ epc = "cutting"
  /\ Reports("Encoding", 270, 530)

\* engine.py:80: the input of the stages after the cut
InputAfterCut_Source == manifest.input

InputAfterCut == CutOutput

\* ffutil.py:164-172: ffmpeg refuses an output path spelled like its input
ConcatRefuses == current_input = CutOutput

\* ffutil.py:164-172 and engine.py:80-81: ffmpeg writes the output path of
\* the cut; when it fails it may leave a partial file there
ConcatReturn ==
  /\ epc = "cutting"
  /\ \E ok \in IF ConcatRefuses THEN {FALSE} ELSE BOOLEAN :
       IF ok
         THEN /\ current_input' = InputAfterCut
              /\ files' = [files EXCEPT ![CutOutput] = "cut"]
              /\ progress' = Append(progress, Event("Silence removal complete", 800))
              /\ epc' = AfterEdits
              /\ error' = error
              /\ failed_delegates' = failed_delegates
         ELSE /\ epc' = "failed"
              /\ error' = "CalledProcessError"
              /\ failed_delegates' = failed_delegates \cup {"concat_segments"}
              /\ \E left \in IF ConcatRefuses THEN {files[CutOutput]}
                               ELSE {files[CutOutput], "partial"} :
                   files' = [files EXCEPT ![CutOutput] = left]
              /\ UNCHANGED <<current_input, progress>>
  /\ reported' = <<>>
  /\ UNCHANGED <<manifest, ffutil_version, source, duration_original, proc_segments,
                 segments_removed, caption_path, calls>>
  /\ UNCHANGED <<rvars, pvars, wvars>>

\* engine.py:82-83
NoSilenceFound ==
  /\ epc = "analyzed"
  /\ segments_removed = 0
  /\ progress' = Append(progress, Event("No silence found", 800))
  /\ epc' = AfterEdits
  /\ UNCHANGED <<manifest, ffutil_version, source, duration_original, current_input,
                 proc_segments, segments_removed, caption_path, calls, error, reported,
                 failed_delegates, files>>
  /\ UNCHANGED <<rvars, pvars, wvars>>

\* engine.py:88-90 and transcribe.py:11-36: extract_audio (ffutil.py:118-132)
\* or the speech model may fail
Transcribe ==
  /\ epc = "transcribe"
  /\ progress' = Append(progress, Event("Transcribing audio", 500))
  /\ calls' = Append(calls, Call("transcribe", current_input, <<>>, None))
  /\ \E out \in {"ok", "CalledProcessError", "ImportError"} :
       /\ IF out = "ok" THEN epc' = "caption_write" /\ error' = error
          ELSE epc' = "failed" /\ error' = out
       /\ failed_delegates' =
            IF out = "ok" THEN failed_delegates
            ELSE failed_delegates
                   \cup {IF out = "ImportError" THEN "transcribe" ELSE "extract_audio"}
  /\ UNCHANGED <<manifest, ffutil_version, source, duration_original, current_input,
                 proc_segments, segments_removed, caption_path, reported, files>>
  /\ UNCHANGED <<rvars, pvars, wvars>>

\* engine.py:92-95 and captions.py:45-60
CaptionWrite ==
  /\ epc = "caption_write"
  /\ progress' = Append(progress, Event("Generating captions", 800))
  /\ calls' = Append(calls, Call("apply_captions", current_input, <<>>, "subtitle"))
  /\ caption_path' = "subtitle"
  /\ epc' = "finalize"
  /\ UNCHANGED <<manifest, ffutil_version, source, duration_original, current_input,
                 proc_segments, segments_removed, error, reported, failed_delegates,
                 files>>
  /\ UNCHANGED <<rvars, pvars, wvars>>

\* engine.py:103: Path.rename moves the file
Rename_KeepsOld(fs, from, to) == [fs EXCEPT ![to] = fs[from]]

Rename(fs, from, to) == [fs EXCEPT ![to] = fs[from], ![from] = "absent"]

\* engine.py:106: shutil.copy2 leaves its source alone
Copy2(fs, from, to) == [fs EXCEPT ![to] = fs[from]]

\* engine.py:97-106
Finalize ==
  /\ epc = "finalize"
  /\ progress' = Append(progress, Event("Finalizing output", 850))
  /\ IF current_input # OutputPath
       THEN IF current_input # manifest.input
              THEN /\ calls' = Append(calls, Call("rename", current_input, <<>>, OutputPath))
                   /\ files' = Rename(files, File(current_input), OutputPath)
              ELSE /\ calls' = Append(calls, Call("copy2", manifest.input, <<>>, OutputPath))
                   /\ files' = Copy2(files, File(manifest.input), OutputPath)
       ELSE UNCHANGED <<calls, files>>
  /\ epc' = "verify"
  /\ UNCHANGED <<manifest, ffutil_version, source, duration_original, current_input,
                 proc_segments, segments_removed, caption_path, error, reported,
                 failed_delegates>>
  /\ UNCHANGED <<rvars, pvars, wvars>>

\* engine.py:108-120: ffprobe fails on a path that holds no file
Verify ==
  /\ epc = "verify"
  /\ calls' = Append(calls, Call("probe", OutputPath, <<>>, None))
  /\ \E ok \in BOOLEAN :
       IF ok /\ files[OutputPath] # "absent"
         THEN /\ progress' = progress \o <<Event("Verifying result", 920),
                                           Event("Done", 1000)>>
              /\ epc' = "done"
              /\ error' = error
              /\ failed_delegates' = failed_delegates
         ELSE /\ progress' = Append(progress, Event("Verifying result", 920))
              /\ epc' = "failed"
              /\ error' = "CalledProcessError"
              /\ failed_delegates' = failed_delegates \cup {"probe"}
  /\ UNCHANGED <<manifest, ffutil_version, source, duration_original, current_input,
                 proc_segments, segments_removed, caption_path, reported, files>>
  /\ UNCHANGED <<rvars, pvars, wvars>>

Next ==
  \/ CheckFfmpeg \/ Probing \/ ScanStart \/ DetectReport \/ DetectReturn
  \/ CutStart \/ ConcatReport \/ ConcatReturn \/ NoSilenceFound
  \/ Transcribe \/ CaptionWrite \/ Finalize \/ Verify

Spec == EInit /\ [][Next]_vars

\* process, over the inputs that may name the file at the path of the cut
SpecCutPath == CutPathInit /\ [][Next]_vars

\* ======================================================================
\* Properties of process (checked under Spec)
\* ======================================================================

C4_NoEmptyCut ==
  /\ \A i \in 1..Len(calls) :
       calls[i].fn = "concat_segments" => calls[i].ranges # <<>>
  /\ (epc \notin {"start", "probing", "scan", "detecting", "analyzed"}
        /\ SilenceCount(proc_segments) > 0
        /\ KeepRanges(proc_segments) = <<>>)
     => /\ epc = "failed"
        /\ error = "ValueError"
        /\ \A i \in 1..Len(calls) : calls[i].fn # "concat_segments"
        /\ progress[Len(progress)] = Event("Encoding", 270)

\* the whole file is silence and the cut stage has raised
C4_Witness ==
  /\ epc = "failed"
  /\ error = "ValueError"
  /\ SilenceCount(proc_segments) > 0
  /\ KeepRanges(proc_segments) = <<>>
  /\ progress[Len(progress)] = Event("Encoding", 270)

\* the failures that the claims call a failure of an external delegate call,
\* or that the source or the reconciled sequence excuses: ffmpeg missing
\* (ffutil.py:21-25), a missing stream or a parse error (ffutil.py:48-53, 77-78),
\* nothing to keep (cut.py:23-24)
ExcusedErrors == {"FFmpegNotFoundError", "ValueError", "NoAudioStreamError"}

NumDone == Cardinality({i \in 1..Len(progress) : progress[i].stage = "Done"})

\* C11 (as stated): a run in which every external delegate call succeeds and
\* something is kept does not end in an error: it returns, and then the last
\* progress event is "Done" with fraction 1.0, emitted exactly once.
C11_ReturnsDone ==
  /\ (epc = "failed" /\ failed_delegates = {}) => error \in ExcusedErrors
  /\ epc = "done" => /\ progress[Len(progress)] = Event("Done", 1000)
                     /\ NumDone = 1

\* the position of a stage in the order probe, silence scan, reconcile, cut,
\* transcribe, caption write, finalize, re-probe, by the label of the events
\* the stage emits (engine.py:49-112)
StageRank(stage) ==
  CASE stage = "Probing video metadata" -> 1
    [] stage = "Scanning audio for silence" -> 2
    [] stage = "Analyzing segments" -> 3
    [] stage \in {"Encoding", "Silence removal complete", "No silence found"} -> 4
    [] stage = "Transcribing audio" -> 5
    [] stage = "Generating captions" -> 6
    [] stage = "Finalizing output" -> 7
    [] stage = "Verifying result" -> 8
    [] stage = "Done" -> 9

\* the same position for the i-th delegate call; a probe belongs to Probing
\* when it is the first call, to the silence scan when it is the second
\* (silence.py:21), to the re-probe otherwise
CallRank(i) ==
  CASE calls[i].fn = "probe" -> (IF i = 1 THEN 1 ELSE IF i = 2 THEN 2 ELSE 8)
    [] calls[i].fn = "detect_silence" -> 2
    [] calls[i].fn = "concat_segments" -> 4
    [] calls[i].fn = "transcribe" -> 5
    [] calls[i].fn = "apply_captions" -> 6
    [] calls[i].fn \in {"rename", "copy2"} -> 7

CountCalls(fns) == Cardinality({i \in 1..Len(calls) : calls[i].fn \in fns})

HasCall(fn) == CountCalls({fn}) > 0

HasEvent(stage) == \E i \in 1..Len(progress) : progress[i].stage = stage

\* C12: the stages run in the order probe, silence scan, reconcile, cut,
\* transcribe, caption write, finalize, re-probe, each at most once; scan and
\* reconcile run only with silence-cut enabled, the cut only with silence-cut
\* enabled and a silence segment, transcribe and caption write only with
\* captioning enabled; a run that returns has run every stage whose condition
\* holds.
C12_StageOrder ==
  /\ \A i \in 1..Len(progress) : \A j \in i..Len(progress) :
       StageRank(progress[i].stage) <= StageRank(progress[j].stage)
  /\ \A i \in 1..Len(calls) : \A j \in i..Len(calls) :
       /\ CallRank(i) <= CallRank(j)
       /\ (i # j /\ CallRank(i) = CallRank(j))
            => (CallRank(i) = 2 /\ calls[i].fn = "probe" /\ calls[j].fn = "detect_silence")
  /\ HasCall("detect_silence") => manifest.silence_cut.enabled
  /\ HasEvent("Analyzing segments")
       => manifest.silence_cut.enabled /\ HasCall("detect_silence")
  /\ HasCall("concat_segments")
       => /\ manifest.silence_cut.enabled
          /\ HasEvent("Analyzing segments")
          /\ SilenceCount(proc_segments) >= 1
  /\ HasCall("transcribe") => manifest.captions.enabled
  /\ HasCall("apply_captions") => manifest.captions.enabled /\ HasCall("transcribe")
  /\ epc = "done" =>
       /\ calls[1].fn = "probe" /\ calls[Len(calls)].fn = "probe" /\ Len(calls) > 1
       /\ HasEvent("Finalizing output")
       /\ manifest.silence_cut.enabled
            => HasCall("detect_silence") /\ HasEvent("Analyzing segments")
       /\ (manifest.silence_cut.enabled /\ SilenceCount(proc_segments) >= 1)
            => HasCall("concat_segments")
       /\ manifest.captions.enabled => HasCall("transcribe") /\ HasCall("apply_captions")

\* a run that returned after every stage ran
C12_Witness ==
  /\ epc = "done"
  /\ HasCall("detect_silence") /\ HasCall("concat_segments")
  /\ HasCall("transcribe") /\ HasCall("apply_captions") /\ HasCall("rename")

ProbingFailed ==
  epc = "failed" /\ progress = <<Event("Probing video metadata", 0)>>

\* C14 (as stated): when the probe delegate itself did not fail, Probing
\* fails exactly when the source has no video stream, or has no audio stream
\* while silence-cut is requested.
C14_ProbingFailsIff ==
  (calls # <<>> /\ failed_delegates = {})
    => (ProbingFailed <=> (\/ ~source.has_video
                           \/ ~source.has_audio /\ manifest.silence_cut.enabled))

\* C15: when Finalize runs with a source path that differs from the
\* destination path, then without a cut the destination holds a copy of the
\* source and the source is still in place, and after a cut the destination
\* holds the cut intermediate and the intermediate path holds nothing; the
\* destination exists when the re-probe starts.
C15_FinalizePlacesOutput ==
  [][(epc = "finalize" /\ epc' = "verify" /\ manifest.input # OutputPath)
       => /\ IF HasCall("concat_segments")
               THEN /\ files'[OutputPath] = "cut"
                    /\ files'[CutOutput] = "absent"
               ELSE /\ files'[OutputPath] = "source"
                    /\ files'[File(manifest.input)] = "source"
                    /\ files'[CutOutput] = files[CutOutput]
          /\ files'[OutputPath] # "absent"]_vars

\* Finalize has moved the cut intermediate of a source at another path
C15_Witness ==
  /\ epc = "verify"
  /\ manifest.input # OutputPath
  /\ HasCall("rename")
  /\ files[OutputPath] = "cut" /\ files[CutOutput] = "absent"
  /\ files[File(manifest.input)] = "source"

\* C16 (as stated): every range parse_silence_ranges returns has start >= 0
\* and end > start.
C16_ValidRanges ==
  ppc = "returned"
  => \A i \in 1..Len(ranges) : ranges[i].start >= 0 /\ ranges[i].end > ranges[i].start

\* C16 (amended): parse_silence_ranges returns one range per start marker
\* that has an end marker at its position or a supplied duration to close it;
\* each has start >= 0 and end >= 0 and is exactly the start marker with that
\* end marker or duration, kept also when its end is not greater than its
\* start.
C16_RangesAsPaired ==
  ppc = "returned"
  => /\ Len(ranges) = IF known_duration # <<>> THEN NumStarts
                      ELSE Min(NumStarts, NumEnds)
     /\ \A i \in 1..Len(ranges) :
          /\ ranges[i].start >= 0 /\ ranges[i].end >= 0
          /\ ranges[i].start = MarkerValue("S", i)
          /\ ranges[i].end = IF i <= NumEnds THEN MarkerValue("E", i)
                             ELSE known_duration[1]

\* a returned range whose end marker is smaller than its start marker, and
\* one closed by a duration that is not greater than its start
C16_Witness ==
  /\ ppc = "returned"
  /\ \E i \in 1..Len(ranges) : i <= NumEnds /\ ranges[i].end < ranges[i].start

\* ======================================================================
\* The job store and its endpoints, web/routes.py
\* ======================================================================

Response(ep, j, c, st, res) ==
  [endpoint |-> ep, job |-> j, code |-> c, status |-> st, result |-> res]

\* routes.py:51-56; 0 stands for a key the dict does not have yet
NewJob == [status |-> "uploaded", progress_queue |-> 0, error |-> None, result |-> 0]

\* every status lets a job be started
StartAllowed_Always(status) == TRUE

\* routes.py:67
StartAllowed(status) == status \in {"uploaded", "done", "error"}

\* routes.py:165
ResultReady(status) == status = "done"

RECURSIVE PendingUpTo(_)
PendingUpTo(n) == IF n = 0 THEN 0 ELSE pending[n] + PendingUpTo(n - 1)

\* the handlers of start_process that passed the checks and have not set
\* the status yet
PendingTotal == PendingUpTo(MaxJobs + 1)

\* the answer r is given to a request that arrived; it is recorded when the
\* answers are followed
Answer(r) ==
  IF view = "answers"
    THEN requests' = 1 - requests /\ last_response' = r
    ELSE UNCHANGED <<requests, last_response>>

\* the answer r is given to a request that arrived in an earlier step
LateAnswer(r) ==
  /\ last_response' = IF view = "answers" THEN r ELSE last_response
  /\ UNCHANGED requests

WInit ==
  /\ WIdle
  /\ RIdle
  /\ PIdle
  /\ EIdle

\* the same store, with the streams followed instead of the answers
SInit ==
  /\ WEmpty
  /\ view = "streams"
  /\ RIdle
  /\ PIdle
  /\ EIdle

\* routes.py:34-58: a request without a file is answered 400, another one
\* stores a new job under a fresh id
Upload ==
  /\ \E has_file \in BOOLEAN :
       IF has_file
         THEN LET j == Cardinality(DOMAIN jobs) + 1
              IN /\ j <= MaxJobs
                 /\ jobs' = jobs @@ (j :> NewJob)
                 /\ Answer(Response("upload", j, 200, None, 0))
         ELSE /\ jobs' = jobs
              /\ Answer(Response("upload", 0, 400, None, 0))
  /\ UNCHANGED <<pending, run_threads>>
  /\ UNCHANGED <<rvars, pvars, evars, readers, view>>

\* routes.py:62-68: the checks of start_process
StartCheck(j) ==
  /\ IF j \notin DOMAIN jobs
       THEN /\ Answer(Response("process", j, 404, None, 0))
            /\ pending' = pending
       ELSE IF ~StartAllowed(jobs[j].status)
         THEN /\ Answer(Response("process", j, 409, None, 0))
              /\ pending' = pending
         ELSE /\ Len(run_threads) + PendingTotal < MaxRuns
              /\ Answer(Response("process", j, 0, None, 0))
              /\ pending' = [pending EXCEPT ![j] = @ + 1]
  /\ UNCHANGED <<jobs, run_threads>>
  /\ UNCHANGED <<rvars, pvars, evars, readers, view>>

\* routes.py:93-122: the handler that passed the checks replaces the queue,
\* sets the status, starts the thread and answers
StartCommit(j) ==
  /\ pending[j] > 0
  /\ pending' = [pending EXCEPT ![j] = @ - 1]
  /\ run_threads' = Append(run_threads, [job |-> j, pc |-> "running", queue |-> <<>>,
                           ok |-> FALSE])
  /\ jobs' = [jobs EXCEPT ![j].progress_queue = Len(run_threads) + 1,
                          ![j].status = "processing",
                          ![j].error = None]
  /\ LateAnswer(Response("process", j, 200, "started", 0))
  /\ UNCHANGED <<rvars, pvars, evars, readers, view>>

\* the progress events that wait in the queues of the threads
RECURSIVE EventsPut(_)
EventsPut(n) ==
  IF n = 0 THEN 0
  ELSE EventsPut(n - 1)
       + Cardinality({k \in 1..Len(run_threads[n].queue) :
                        run_threads[n].queue[k] = "event"})

\* routes.py:100-101: process reports to the queue of its run
RunProgress(i) ==
  /\ run_threads[i].pc = "running"
  /\ EventsPut(Len(run_threads)) < MaxEvents
  /\ run_threads' = [run_threads EXCEPT ![i].queue = Append(@, "event")]
  /\ UNCHANGED <<jobs, pending, requests, last_response>>
  /\ UNCHANGED <<rvars, pvars, evars, readers, view>>

\* routes.py:103-117: process returns or raises
RunFinish(i) ==
  /\ run_threads[i].pc = "running"
  /\ \E ok \in BOOLEAN :
       /\ run_threads' = [run_threads EXCEPT ![i].pc = "finished", ![i].ok = ok]
       /\ jobs' = IF ok
                    THEN [jobs EXCEPT ![run_threads[i].job].result = i,
                                      ![run_threads[i].job].status = "done"]
                    ELSE [jobs EXCEPT ![run_threads[i].job].status = "error",
                                      ![run_threads[i].job].error = "message"]
  /\ UNCHANGED <<pending, requests, last_response>>
  /\ UNCHANGED <<rvars, pvars, evars, readers, view>>

\* routes.py:118-119
RunSentinel(i) ==
  /\ run_threads[i].pc = "finished"
  /\ run_threads' = [run_threads EXCEPT ![i].pc = "ended", ![i].queue = Append(@, None)]
  /\ UNCHANGED <<jobs, pending, requests, last_response>>
  /\ UNCHANGED <<rvars, pvars, evars, readers, view>>

\* routes.py:126-134 and 156: the checks of progress_stream; the answer 200
\* streams from a generator that holds the queue the job has at that moment
ProgressStream(j) ==
  /\ IF j \notin DOMAIN jobs
       THEN /\ Answer(Response("progress", j, 404, None, 0))
            /\ readers' = readers
       ELSE IF jobs[j].progress_queue = 0
         THEN /\ Answer(Response("progress", j, 409, None, 0))
              /\ readers' = readers
         ELSE /\ Answer(Response("progress", j, 200, None, jobs[j].progress_queue))
              /\ IF view = "streams"
                   THEN /\ Len(readers) < MaxReaders
                        /\ readers' = Append(readers,
                                             [job |-> j, q |-> jobs[j].progress_queue,
                                              open |-> TRUE, terminal |-> None,
                                              result |-> 0])
                   ELSE readers' = readers
  /\ UNCHANGED <<jobs, pending, run_threads>>
  /\ UNCHANGED <<rvars, pvars, evars, view>>

\* routes.py:144-151: the terminal event for the status and result the job
\* has when the sentinel is taken
TerminalEvent(job) ==
  IF job.status = "error" THEN [terminal |-> "error", result |-> 0]
  ELSE [terminal |-> "complete", result |-> job.result]

\* routes.py:137-154: the generator takes the next message of its queue
ReaderGet(k) ==
  /\ readers[k].open
  /\ run_threads[readers[k].q].queue # <<>>
  /\ LET msg == Head(run_threads[readers[k].q].queue)
         ev == TerminalEvent(jobs[readers[k].job])
     IN readers' = IF msg = None
                     THEN [readers EXCEPT ![k].open = FALSE,
                                          ![k].terminal = ev.terminal,
                                          ![k].result = ev.result]
                     ELSE readers
  /\ run_threads' = [run_threads EXCEPT ![readers[k].q].queue = Tail(@)]
  /\ UNCHANGED <<jobs, pending, requests, last_response>>
  /\ UNCHANGED <<rvars, pvars, evars, view>>

\* routes.py:138-142: nothing arrived for 120 seconds
ReaderTimeout(k) ==
  /\ readers[k].open
  /\ run_threads[readers[k].q].queue = <<>>
  /\ readers' = [readers EXCEPT ![k].open = FALSE, ![k].terminal = "timeout"]
  /\ UNCHANGED <<jobs, pending, run_threads, requests, last_response>>
  /\ UNCHANGED <<rvars, pvars, evars, view>>

\* routes.py:159-169
DownloadResult(j) ==
  /\ Answer(IF j \notin DOMAIN jobs THEN Response("result", j, 404, None, 0)
            ELSE IF ~ResultReady(jobs[j].status) THEN Response("result", j, 409, None, 0)
            ELSE Response("result", j, 200, None, jobs[j].result))
  /\ UNCHANGED <<jobs, pending, run_threads>>
  /\ UNCHANGED <<rvars, pvars, evars, readers, view>>

\* routes.py:172-183
JobStatus(j) ==
  /\ Answer(IF j \notin DOMAIN jobs THEN Response("status", j, 404, None, 0)
            ELSE Response("status", j, 200, jobs[j].status,
                          IF jobs[j].status = "done" THEN jobs[j].result ELSE 0))
  /\ UNCHANGED <<jobs, pending, run_threads>>
  /\ UNCHANGED <<rvars, pvars, evars, readers, view>>

WNext ==
  \/ Upload
  \/ \E j \in JobIds : StartCheck(j)
  \/ \E j \in JobIds : StartCommit(j)
  \/ \E i \in 1..Len(run_threads) : RunProgress(i)
  \/ \E i \in 1..Len(run_threads) : RunFinish(i)
  \/ \E i \in 1..Len(run_threads) : RunSentinel(i)
  \/ \E j \in JobIds : ProgressStream(j)
  \/ \E j \in JobIds : DownloadResult(j)
  \/ \E j \in JobIds : JobStatus(j)

SpecWeb == WInit /\ [][WNext]_vars

\* the requests that start runs and open streams, the threads and the
\* generators; the endpoints that only read the store are left out
SNext ==
  \/ Upload
  \/ \E j \in JobIds : StartCheck(j)
  \/ \E j \in JobIds : StartCommit(j)
  \/ \E i \in 1..Len(run_threads) : RunProgress(i)
  \/ \E i \in 1..Len(run_threads) : RunFinish(i)
  \/ \E i \in 1..Len(run_threads) : RunSentinel(i)
  \/ \E j \in JobIds : ProgressStream(j)
  \/ \E k \in 1..Len(readers) : ReaderGet(k)
  \/ \E k \in 1..Len(readers) : ReaderTimeout(k)

SpecStream == SInit /\ [][SNext]_vars

\* ======================================================================
\* Properties of the job store (checked under SpecWeb)
\* ======================================================================

HasThread(j) == \E i \in 1..Len(run_threads) : run_threads[i].job = j

\* C17: a request that names a job answers 404 exactly when the id is not in
\* the store; an upload stores its job with status "uploaded", which is the
\* status of a job until a run of it is started, and the status endpoint
\* reports the stored status; the result endpoint serves the stored result
\* when the status is "done" and answers 409 otherwise; start_process lets a
\* request pass its checks when the status is "uploaded", "done" or "error"
\* and answers 409 when it is "processing".
C17_JobEndpoints ==
  [][/\ requests' # requests =>
          LET r == last_response'
              known == r.job \in DOMAIN jobs
          IN /\ r.endpoint \in {"process", "progress", "result", "status"}
                  => (r.code = 404 <=> ~known)
             /\ (r.endpoint = "upload" /\ r.code = 200)
                  => ~known /\ jobs'[r.job].status = "uploaded"
             /\ (r.endpoint = "status" /\ known)
                  => r.code = 200 /\ r.status = jobs[r.job].status
             /\ (r.endpoint = "result" /\ known)
                  => IF jobs[r.job].status = "done"
                       THEN r.code = 200 /\ r.result = jobs[r.job].result
                       ELSE r.code = 409
             /\ (r.endpoint = "process" /\ known)
                  => IF jobs[r.job].status \in {"uploaded", "done", "error"}
                       THEN r.code = 0 /\ pending'[r.job] = pending[r.job] + 1
                       ELSE /\ r.code = 409 /\ pending' = pending
                            /\ jobs[r.job].status = "processing"
     /\ \A j \in DOMAIN jobs' :
          /\ jobs'[j].status \in {"uploaded", "processing", "done", "error"}
          /\ ~HasThread(j)' => jobs'[j].status = "uploaded"]_vars

\* a process request was answered 409 for a job that is being processed
C17_Witness ==
  /\ last_response = Response("process", 1, 409, None, 0)
  /\ jobs[1].status = "processing"

\* ======================================================================
\* More properties of analyze_silence (checked under SpecReconcile)
\* ======================================================================

\* C18: for duration > 0 and raw intervals with end > start in any order,
\* overlapping or not, every step leaves the cursor no smaller and at most
\* the duration; an iteration either skips its interval, changing neither
\* the cursor nor the segments, or appends a silence segment that starts at
\* the padded start clamped up to the cursor and moves the cursor to its end;
\* the returned list is a partition of [0, duration] with ascending starts.
C18_AnyOrderPartition ==
  [][(duration > 0 /\ WellFormed(silent_ranges))
       => /\ cursor' >= cursor /\ cursor' <= duration
          /\ (pc = "loop" /\ idx <= Len(silent_ranges))
               => LET r == silent_ranges[idx]
                      s == Max(Max(r.start + padding, 0), cursor)
                      e == Min(r.end - padding, duration)
                  IN IF e <= s
                       THEN cursor' = cursor /\ segments' = segments
                       ELSE /\ cursor' = e
                            /\ segments'[Len(segments')] = Segment(s, e, "silence")
                            /\ \A k \in 1..Len(segments) : segments'[k] = segments[k]
          /\ (pc' = "returned" /\ pc # "returned")
               => /\ IsPartition(result', duration)
                  /\ \A k \in 1..Len(result') : result'[k].end > result'[k].start
    ]_vars

\* two intervals given in descending order, the second overlapping the first
\* and reaching beyond it: both give a silence segment, the second clamped
C18_Witness ==
  /\ pc = "returned" /\ duration > 0
  /\ Len(silent_ranges) = 2 /\ WellFormed(silent_ranges)
  /\ silent_ranges[1].start > silent_ranges[2].start
  /\ silent_ranges[2].end > silent_ranges[1].end
  /\ Cardinality(Silences(result)) = 2
  /\ IsPartition(result, duration)

\* ======================================================================
\* More properties of process (checked under Spec)
\* ======================================================================

IsKeep(seg) == seg.label = "keep"

\* C19: every call of concat_segments gets the keep segments of the
\* reconciled sequence as ranges, in their order: the list is not empty, each
\* range has end > start and lies in [0, duration], each range ends no later
\* than the next one starts, and no range overlaps a silence segment.
C19_CutKeepsOnly ==
  \A i \in 1..Len(calls) :
    calls[i].fn = "concat_segments"
    => LET rs == calls[i].ranges
           keeps == SelectSeq(proc_segments, IsKeep)
       IN /\ rs # <<>>
          /\ Len(rs) = Len(keeps)
          /\ \A k \in 1..Len(rs) :
               /\ rs[k] = TimeRange(keeps[k].start, keeps[k].end)
               /\ 0 <= rs[k].start /\ rs[k].start < rs[k].end
               /\ rs[k].end <= source.duration
          /\ \A k \in 1..(Len(rs) - 1) : rs[k].end <= rs[k + 1].start
          /\ \A k \in 1..Len(rs) : \A m \in Silences(proc_segments) :
               \/ rs[k].end <= proc_segments[m].start
               \/ proc_segments[m].end <= rs[k].start

\* concat_segments was called with two ranges around a silence segment
C19_Witness ==
  /\ epc = "cutting"
  /\ \E i \in 1..Len(calls) :
       /\ calls[i].fn = "concat_segments"
       /\ Len(calls[i].ranges) = 2
       /\ calls[i].ranges[1].end < calls[i].ranges[2].start

\* C20: transcribe and apply_captions are called only with captioning
\* enabled, each after every call of concat_segments and after the cut has
\* completed, on the cut intermediate when the cut ran in this run and on
\* the manifest's input otherwise; a run with captioning enabled that returns
\* has called both, with silence-cut enabled or not.
C20_CaptionInput ==
  /\ \A i \in 1..Len(calls) :
       calls[i].fn \in {"transcribe", "apply_captions"}
       => /\ manifest.captions.enabled
          /\ calls[i].path = IF HasCall("concat_segments") THEN CutOutput
                             ELSE manifest.input
          /\ \A k \in 1..Len(calls) :
               calls[k].fn = "concat_segments"
               => k < i /\ HasEvent("Silence removal complete")
          /\ manifest.silence_cut.enabled
               => HasEvent("Silence removal complete") \/ HasEvent("No silence found")
  /\ (epc = "done" /\ manifest.captions.enabled)
       => HasCall("transcribe") /\ HasCall("apply_captions")

\* captions were written from the cut intermediate
C20_Witness ==
  /\ HasCall("concat_segments")
  /\ \E i \in 1..Len(calls) :
       calls[i].fn = "apply_captions" /\ calls[i].path = CutOutput

\* ======================================================================
\* Labels of the reconciled sequence (checked under SpecReconcile)
\* ======================================================================

\* C21: in every returned list each segment is labeled keep or silence and
\* has no text, and no keep segment is followed by a keep segment: the keep
\* time around an eliminated interval is one segment.
C21_LabelsAndMergedKeep ==
  pc = "returned"
  => /\ \A k \in 1..Len(result) :
          result[k].label \in {"keep", "silence"} /\ result[k].text = None
     /\ \A k \in 1..(Len(result) - 1) :
          ~(result[k].label = "keep" /\ result[k + 1].label = "keep")

\* a silence segment, then an eliminated interval that lies strictly inside
\* the keep segment that follows
C21_Witness ==
  /\ pc = "returned" /\ duration > 0
  /\ Len(silent_ranges) = 2
  /\ Eliminated(silent_ranges[2])
  /\ Cardinality(Silences(result)) = 1
  /\ \E k \in 1..Len(result) :
       /\ result[k].label = "keep"
       /\ result[k].start < silent_ranges[2].start
       /\ silent_ranges[2].start < result[k].end

\* ======================================================================
\* Concurrency of the job store (checked under SpecWeb)
\* ======================================================================

\* the threads of job j in which process is executing
ActiveRuns(j) ==
  {i \in 1..Len(run_threads) : run_threads[i].job = j /\ run_threads[i].pc = "running"}

\* C22 (as stated): for each job at most one background run is active at any
\* time, and a run that is active owns the progress queue of its job.
C22_SingleActiveRun ==
  \A j \in DOMAIN jobs :
    /\ Cardinality(ActiveRuns(j)) <= 1
    /\ \A i \in ActiveRuns(j) : jobs[j].progress_queue = i

\* ======================================================================
\* The progress streams (checked under SpecStream)
\* ======================================================================

\* routes.py:100-101, 118-119: the end sentinel of a run is the last message of
\* its queue, and it is there only after the run has set the status of the job
C23_SentinelLast ==
  \A i \in 1..Len(run_threads) :
    \A n \in 1..Len(run_threads[i].queue) :
      run_threads[i].queue[n] = None
        => n = Len(run_threads[i].queue) /\ run_threads[i].pc = "ended"

\* reader k dequeues the end sentinel of its queue in this step
DequeuesSentinel(k) ==
  /\ readers[k].open
  /\ ~readers'[k].open
  /\ readers'[k].terminal \in {"error", "complete"}

\* C23 (as stated): whenever a progress-stream reader dequeues the end sentinel
\* of a run, the status of the job is "done" or "error", the terminal event of
\* the reader is an error event if and only if that run failed, and a
\* "complete" event carries the result of that same run.
C23_TerminalEventOfRun ==
  [][\A k \in 1..Len(readers) :
       DequeuesSentinel(k)
         => /\ jobs[readers[k].job].status \in {"done", "error"}
            /\ readers'[k].terminal = "error" <=> ~run_threads[readers[k].q].ok
            /\ readers'[k].terminal = "complete" => readers'[k].result = readers[k].q]_vars

\* a reader has dequeued the end sentinel of a run
C23_Witness ==
  \E k \in 1..Len(readers) :
    /\ ~readers[k].open
    /\ readers[k].terminal \in {"error", "complete"}
    /\ run_threads[readers[k].q].pc = "ended"

\* ======================================================================
\* The source file (checked under SpecCutPath)
\* ======================================================================

IsSilence(s) == s.label = "silence"

\* C25: the segments_removed value of a run of process that returns is the
\* number of silence-labeled segments of the reconciled sequence of that run,
\* it is 0 when silence-cut is disabled, and the cut stage ran in that run
\* exactly when it is greater than 0.
C25_SegmentsRemoved ==
  epc = "done"
    => /\ segments_removed = Len(SelectSeq(proc_segments, IsSilence))
       /\ ~manifest.silence_cut.enabled => segments_removed = 0
       /\ HasCall("concat_segments") <=> segments_removed > 0

\* a run returned after a cut that removed two of three segments
C25_Witness ==
  /\ epc = "done"
  /\ manifest.silence_cut.enabled
  /\ segments_removed = 2
  /\ Len(proc_segments) = 3
  /\ HasCall("concat_segments")

====
